---- MODULE Spec2Model ----
(***************************************************************************)
(* MapDiff (src/src/mapdiff.py): Analyzer._build_map parses a map file     *)
(* into a dictionary, Analyzer.compare diffs two such dictionaries and     *)
(* Program._scan turns the diff into the report.                           *)
(*                                                                         *)
(* Strings are sequences of one-character strings, so that split, strip,   *)
(* join and replace are computed as Python computes them.                  *)
(***************************************************************************)
EXTENDS Integers, Sequences, FiniteSets, TLC

VARIABLES
    pc,              \* position of the program
    file,            \* content of the map file _build_map reads
    pos,             \* index of the next unread character of file
    hash_map,        \* _build_map: the dictionary under construction
    original_map,    \* Analyzer.original_map
    current_map,     \* Analyzer.current_map
    result_set,      \* compare: the returned dict, as its items in insertion order
    scan_pos,        \* _scan: index (in result_set) of the next filename
    report,          \* _scan: the filenames written to the results file, in order
    key_errors,      \* _scan: the filenames whose lookup raised KeyError
    total_count,     \* _scan: total_count
    difference_count \* _scan: difference_count

vars == <<pc, file, pos, hash_map, original_map, current_map, result_set,
          scan_pos, report, key_errors, total_count, difference_count>>

-----------------------------------------------------------------------------
(* Bounds *)

\* longest map file, in characters
MaxFileLen == 6
\* number of distinct file names the two dictionaries draw their keys from
NumKeys == 2

-----------------------------------------------------------------------------
(* Python str operations *)

\* the characters Python's str.strip() removes that occur in the model
Whitespace == {" ", "\n", "\t"}

\* the characters a map file is made of
FileChars == {"a", "|", ">", " ", "\n"}

EmptyMap == [k \in {} |-> <<>>]

Last(s) == s[Len(s)]

\* str.split(sep) for a one-character sep: always at least one field
RECURSIVE SplitFrom(_, _, _, _)
SplitFrom(s, sep, i, cur) ==
    IF i > Len(s) THEN <<cur>>
    ELSE IF s[i] = sep THEN <<cur>> \o SplitFrom(s, sep, i + 1, <<>>)
    ELSE SplitFrom(s, sep, i + 1, Append(cur, s[i]))

Split(s, sep) == SplitFrom(s, sep, 1, <<>>)

\* sep.join(fields)
RECURSIVE Join(_, _)
Join(fields, sep) ==
    IF Len(fields) = 0 THEN <<>>
    ELSE IF Len(fields) = 1 THEN fields[1]
    ELSE fields[1] \o <<sep>> \o Join(Tail(fields), sep)

RECURSIVE LStrip(_)
LStrip(s) ==
    IF Len(s) > 0 /\ s[1] \in Whitespace THEN LStrip(Tail(s)) ELSE s

RECURSIVE RStrip(_)
RStrip(s) ==
    IF Len(s) > 0 /\ s[Len(s)] \in Whitespace
    THEN RStrip(SubSeq(s, 1, Len(s) - 1)) ELSE s

\* str.strip()
Strip(s) == RStrip(LStrip(s))

StartsWith(s, p) == Len(p) <= Len(s) /\ SubSeq(s, 1, Len(p)) = p

\* str.replace(old, ""): every non-overlapping occurrence, left to right
RECURSIVE RemoveAll(_, _)
RemoveAll(s, old) ==
    IF Len(s) = 0 THEN <<>>
    ELSE IF StartsWith(s, old)
         THEN RemoveAll(SubSeq(s, Len(old) + 1, Len(s)), old)
         ELSE <<s[1]>> \o RemoveAll(Tail(s), old)

-----------------------------------------------------------------------------
(* Analyzer._build_map *)

\* `for line in stream`: the line that starts at position p, its "\n" included
RECURSIVE LineEnd(_, _)
LineEnd(f, p) ==
    IF p >= Len(f) THEN Len(f)
    ELSE IF f[p] = "\n" THEN p ELSE LineEnd(f, p + 1)

NextLine(f, p) == SubSeq(f, p, LineEnd(f, p))

\* current_file_data = line.split('>')[-1].split("|")
FileData(line) == Split(Last(Split(line, ">")), "|")

\* current_file_name = f"{current_file_data[0].strip()}|"
FileName(line) == Strip(FileData(line)[1]) \o <<"|">>

\* '|'.join(current_file_data).strip().replace(current_file_name, "")
FileValue(line) == RemoveAll(Strip(Join(FileData(line), "|")), FileName(line))

\* a slip that keeps the first value of a repeated key (dict.setdefault)
DictSetDefault(d, key, value) ==
    [k \in DOMAIN d \cup {key} |-> IF k \in DOMAIN d THEN d[k] ELSE value]

\* hash_map[key] = value
DictSet(d, key, value) ==
    [k \in DOMAIN d \cup {key} |-> IF k = key THEN value ELSE d[k]]

\* the body of the loop over the stream
ParseLine(d, line) == DictSet(d, FileName(line), FileValue(line))

ParseInit ==
    /\ pc = "build"
    /\ file \in UNION {[1..n -> FileChars] : n \in 0..MaxFileLen}
    /\ pos = 1
    /\ hash_map = EmptyMap
    /\ original_map = EmptyMap
    /\ current_map = EmptyMap
    /\ result_set = <<>>
    /\ scan_pos = 1
    /\ report = <<>>
    /\ key_errors = {}
    /\ total_count = 0
    /\ difference_count = 0

CompareVars == <<original_map, current_map, result_set, scan_pos, report,
                 key_errors, total_count, difference_count>>

\* one iteration of `for line in stream`
ReadLine ==
    /\ pc = "build"
    /\ pos <= Len(file)
    /\ hash_map' = ParseLine(hash_map, NextLine(file, pos))
    /\ pos' = LineEnd(file, pos) + 1
    /\ UNCHANGED <<pc, file, CompareVars>>

\* the stream is exhausted: return hash_map
ReturnMap ==
    /\ pc = "build"
    /\ pos > Len(file)
    /\ pc' = "built"
    /\ UNCHANGED <<file, pos, hash_map, CompareVars>>

ParseNext == ReadLine \/ ReturnMap

ParseSpec == ParseInit /\ [][ParseNext]_vars

-----------------------------------------------------------------------------
(* Analyzer.compare *)

\* the file names (dictionary keys) of the two system maps
Keys == 1..NumKeys

\* the metadata strings: size|checksum
Values == {<<"1", "|", "c">>, <<"2", "|", "c">>, <<"1", "|", "d">>}

\* the dictionaries over Keys
Maps == UNION {[D -> Values] : D \in SUBSET Keys}

\* set(d.items())
Items(d) == {<<k, d[k]>> : k \in DOMAIN d}

\* a slip: a | b
SetUnion(a, b) == a \cup b

\* a slip: a - b
SetMinus(a, b) == a \ b

\* a ^ b
SymmetricDifference(a, b) == (a \ b) \cup (b \ a)

\* set_difference = original_set ^ current_set
SetDifference(original, current) ==
    SymmetricDifference(Items(original), Items(current))

\* key in result_set
HasKey(rs, key) == \E i \in DOMAIN rs : rs[i][1] = key

\* a slip: the entry is recorded without the membership test
InsertAlways(rs, entry) == Append(rs, entry)

\* if not entry_tuple[0] in result_set: result_set[entry_tuple[0]] = entry_tuple[1]
InsertIfAbsent(rs, entry) ==
    IF HasKey(rs, entry[1]) THEN rs ELSE Append(rs, entry)

\* the loop over set_difference, in the order the set is iterated
RECURSIVE CompareLoop(_, _)
CompareLoop(rs, order) ==
    IF Len(order) = 0 THEN rs
    ELSE CompareLoop(InsertIfAbsent(rs, order[1]), Tail(order))

\* the orders a set can be iterated in (string hashing is randomised per run)
RECURSIVE IterationOrders(_)
IterationOrders(S) ==
    IF S = {} THEN {<<>>}
    ELSE UNION {{<<x>> \o o : o \in IterationOrders(S \ {x})} : x \in S}

\* the dictionaries compare can return for a pair of maps
CompareResults(original, current) ==
    {CompareLoop(<<>>, order) :
        order \in IterationOrders(SetDifference(original, current))}

\* Analyzer.compare
Compare ==
    /\ pc = "compare"
    /\ \E order \in IterationOrders(SetDifference(original_map, current_map)) :
           result_set' = CompareLoop(<<>>, order)
    /\ pc' = "scan"
    /\ UNCHANGED <<file, pos, hash_map, original_map, current_map, scan_pos,
                   report, key_errors, total_count, difference_count>>

-----------------------------------------------------------------------------
(* Program._scan *)

\* data = [f"\t{item}" for item in value.split('|')]
\* checksum = str(data[-1].split(' ')[-1].strip())
Checksum(value) ==
    Strip(Last(Split(<<"\t">> \o Last(Split(value, "|")), " ")))

\* len(difference_map) == 0: "No changes were found among the map files."
ScanNoChanges ==
    /\ pc = "scan"
    /\ Len(result_set) = 0
    /\ pc' = "done"
    /\ UNCHANGED <<file, pos, hash_map, original_map, current_map, result_set,
                   scan_pos, report, key_errors, total_count, difference_count>>

\* one iteration of `for filename in difference_map`
ScanFile ==
    /\ pc = "scan"
    /\ Len(result_set) > 0
    /\ scan_pos <= Len(result_set)
    /\ LET filename == result_set[scan_pos][1] IN
         /\ total_count' = total_count + 1
         /\ IF filename \notin DOMAIN original_map \/ filename \notin DOMAIN current_map
            THEN \* except KeyError: pass
                 /\ key_errors' = key_errors \cup {filename}
                 /\ UNCHANGED <<report, difference_count>>
            ELSE IF Checksum(current_map[filename]) # Checksum(original_map[filename])
            THEN /\ report' = Append(report, <<filename, original_map[filename],
                                               current_map[filename]>>)
                 /\ difference_count' = difference_count + 1
                 /\ UNCHANGED key_errors
            ELSE UNCHANGED <<report, difference_count, key_errors>>
    /\ scan_pos' = scan_pos + 1
    /\ UNCHANGED <<pc, file, pos, hash_map, original_map, current_map, result_set>>

\* the loop is over: the difference message is written
ScanFinish ==
    /\ pc = "scan"
    /\ Len(result_set) > 0
    /\ scan_pos > Len(result_set)
    /\ pc' = "done"
    /\ UNCHANGED <<file, pos, hash_map, original_map, current_map, result_set,
                   scan_pos, report, key_errors, total_count, difference_count>>

\* Analyzer.__init__ has built both maps
Init ==
    /\ pc = "compare"
    /\ file = <<>>
    /\ pos = 1
    /\ hash_map = EmptyMap
    /\ original_map \in Maps
    /\ current_map \in Maps
    /\ result_set = <<>>
    /\ scan_pos = 1
    /\ report = <<>>
    /\ key_errors = {}
    /\ total_count = 0
    /\ difference_count = 0

Next == Compare \/ ScanNoChanges \/ ScanFile \/ ScanFinish

Spec == Init /\ [][Next]_vars

-----------------------------------------------------------------------------
(* Properties of compare and _scan *)

\* Reading an entry <<key, value>> of the returned dict as a DiffRecord for
\* the maps (original, current): the value is the record's original_value when
\* the entry is an item of original, its current_value when it is an item of
\* current (an absent value is the empty set); the kind is the one whose
\* values are present.  The dict itself stores one value and no kind.
OptionalValue(present, value) == IF present THEN {value} ELSE {}

KindOf(hasOriginal, hasCurrent) ==
    IF hasOriginal /\ hasCurrent THEN "Changed"
    ELSE IF hasCurrent THEN "Added"
    ELSE IF hasOriginal THEN "Removed"
    ELSE "None"

DiffRecord(entry, original, current) ==
    [key            |-> entry[1],
     kind           |-> KindOf(entry \in Items(original), entry \in Items(current)),
     original_value |-> OptionalValue(entry \in Items(original), entry[2]),
     current_value  |-> OptionalValue(entry \in Items(current), entry[2])]

\* the records a returned dict denotes
DiffRecords(rs, original, current) ==
    {DiffRecord(rs[i], original, current) : i \in DOMAIN rs}

Records == DiffRecords(result_set, original_map, current_map)

Compared == pc # "compare"

InBoth(k) == k \in DOMAIN original_map /\ k \in DOMAIN current_map
OnlyInOriginal(k) == k \in DOMAIN original_map /\ k \notin DOMAIN current_map
OnlyInCurrent(k) == k \notin DOMAIN original_map /\ k \in DOMAIN current_map
Differs(k) == InBoth(k) /\ original_map[k] # current_map[k]

\* C1: every key present in both maps with differing values has a record that
\* is classified Changed and carries both the original and the current value.
C1_ChangedCarriesBoth ==
    Compared =>
        \A k \in Keys : Differs(k) =>
            \E r \in Records :
                /\ r.key = k
                /\ r.kind = "Changed"
                /\ r.original_value = {original_map[k]}
                /\ r.current_value = {current_map[k]}

\* C2: every key present in exactly one map has a record of the corresponding
\* kind with its one known value: Added with current[k], Removed with
\* original[k].
C2_AddedRemoved ==
    Compared =>
        \A k \in Keys :
            /\ OnlyInCurrent(k) =>
                   \E r \in Records :
                       /\ r.key = k /\ r.kind = "Added"
                       /\ r.current_value = {current_map[k]}
                       /\ r.original_value = {}
            /\ OnlyInOriginal(k) =>
                   \E r \in Records :
                       /\ r.key = k /\ r.kind = "Removed"
                       /\ r.original_value = {original_map[k]}
                       /\ r.current_value = {}

\* compare has run on maps with a key only in current and a key only in
\* original
C2_Witness ==
    /\ Compared
    /\ \E k, l \in Keys : OnlyInCurrent(k) /\ OnlyInOriginal(l)
    /\ Len(result_set) = NumKeys

\* the set of entries of a returned dict
EntrySet(rs) == {rs[i] : i \in DOMAIN rs}

\* C3: for a fixed pair of maps the set of records compare returns is the same
\* for every order in which the set difference is iterated.
C3_Deterministic ==
    Compared =>
        \A rs \in CompareResults(original_map, current_map) :
            EntrySet(rs) = EntrySet(result_set)

\* the file names the report holds
Reported == {report[i][1] : i \in DOMAIN report}

\* C4: building the report raises no missing-key condition for any diffed
\* key, and no key of the result is dropped from the report.
C4_NoLookupMiss ==
    /\ key_errors = {}
    /\ pc = "done" => \A i \in DOMAIN result_set : result_set[i][1] \in Reported

\* C5: a key present in both maps with equal values has no record; so the
\* result is empty when the two maps are equal.
C5_EqualNeverAppears ==
    Compared =>
        /\ \A k \in Keys :
               (InBoth(k) /\ original_map[k] = current_map[k])
                   => ~\E r \in Records : r.key = k
        /\ original_map = current_map => result_set = <<>>

\* compare has run on maps that agree on one key and differ on another
C5_Witness ==
    /\ Compared
    /\ \E k, l \in Keys :
           /\ InBoth(k) /\ original_map[k] = current_map[k]
           /\ Differs(l) /\ HasKey(result_set, l)

\* C6: compare(A, B) and compare(B, A) hold the same keys, and every record of
\* one direction is in the other with its original and current values
\* exchanged (so Added becomes Removed with the same value, and Changed swaps).
Mirrored(r, s) ==
    /\ r.key = s.key
    /\ r.original_value = s.current_value
    /\ r.current_value = s.original_value

C6_Symmetric ==
    Compared =>
        \A rev \in CompareResults(current_map, original_map) :
            LET back == DiffRecords(rev, current_map, original_map) IN
            /\ {r.key : r \in Records} = {s.key : s \in back}
            /\ \A r \in Records : \E s \in back : Mirrored(r, s)
            /\ \A s \in back : \E r \in Records : Mirrored(r, s)

-----------------------------------------------------------------------------
(* Properties of _build_map *)

\* the lines of f that start before position stop, in file order
RECURSIVE LinesFrom(_, _, _)
LinesFrom(f, p, stop) ==
    IF p >= stop \/ p > Len(f) THEN <<>>
    ELSE <<NextLine(f, p)>> \o LinesFrom(f, LineEnd(f, p) + 1, stop)

\* the lines the loop has consumed so far
LinesRead == LinesFrom(file, 1, pos)

\* the index of the last line read that yields key k
LastLineOf(k) ==
    CHOOSE i \in DOMAIN LinesRead :
        /\ FileName(LinesRead[i]) = k
        /\ \A j \in DOMAIN LinesRead : FileName(LinesRead[j]) = k => j <= i

\* C8: when several lines of a map file yield the same key, the mapping holds
\* for that key the value of the last such line in file order (and it holds
\* exactly the keys the lines yield).
C8_LastWriteWins ==
    /\ DOMAIN hash_map = {FileName(LinesRead[i]) : i \in DOMAIN LinesRead}
    /\ \A k \in DOMAIN hash_map :
           hash_map[k] = FileValue(LinesRead[LastLineOf(k)])

\* a finished parse of a file where a key repeats with another line's key in
\* between, and the first and last occurrence carry different values
C8_Witness ==
    /\ pc = "built"
    /\ \E i, j, l \in DOMAIN LinesRead :
           /\ i < j /\ j < l
           /\ FileName(LinesRead[i]) = FileName(LinesRead[l])
           /\ FileName(LinesRead[j]) # FileName(LinesRead[i])
           /\ FileValue(LinesRead[i]) # FileValue(LinesRead[l])
           /\ hash_map[FileName(LinesRead[l])] = FileValue(LinesRead[l])

\* a blank line, or a line with no '>' character
Blank(line) == Strip(line) = <<>>
HasSeparator(line) == \E i \in DOMAIN line : line[i] = ">"
Malformed(line) == Blank(line) \/ ~HasSeparator(line)

RECURSIVE BuildOver(_)
BuildOver(lines) ==
    IF Len(lines) = 0 THEN EmptyMap
    ELSE ParseLine(BuildOver(SubSeq(lines, 1, Len(lines) - 1)), Last(lines))

WellFormedOnly(line) == ~Malformed(line)

\* C9: parsing runs to the end of the file and returns the mapping over the
\* well-formed lines only; a blank line or a line without '>' adds no key.
C9_SkipsMalformed ==
    pc = "built" => hash_map = BuildOver(SelectSeq(LinesRead, WellFormedOnly))

\* the value the record body of a line denotes: the fields after the first,
\* joined with "|" and trimmed
FieldsAfterFirst(line) == Strip(Join(Tail(FileData(line)), "|"))

\* a line with a separator and a non-empty key
WellFormed(line) == ~Malformed(line) /\ Strip(FileData(line)[1]) # <<>>

\* C10: for every well-formed line the value stored under its key is exactly
\* the fields after the first, joined with "|" and trimmed.
C10_ValueIsRemainingFields ==
    Len(LinesRead) > 0 /\ WellFormed(Last(LinesRead))
        => hash_map[FileName(Last(LinesRead))] = FieldsAfterFirst(Last(LinesRead))

====
